---- MODULE Spec2Model ----
(***************************************************************************)
(* A model of rust/src/main.rs: one run of `main` against a Bitcoin node.  *)
(*                                                                         *)
(* The program is sequential.  Every remote call is one action: the node   *)
(* answers ("ok"), rejects the call ("rpc") or cannot be reached           *)
(* ("transport"), and the action continues exactly as the code does on     *)
(* that answer.  The node is modelled by the part of its state the calls   *)
(* read and change: the two wallets, the chain tip, the mempool, the       *)
(* confirmed transactions and the next fresh address.                      *)
(*                                                                         *)
(* Text is a tuple of tokens: <<>> is the empty string, <<a>> an address,  *)
(* <<"int", n>> the decimal text of the integer n, <<"dec7", n>> the text  *)
(* of n * 10^-7 written with seven decimals ("{:.7}").                     *)
(***************************************************************************)
EXTENDS Integers, Sequences, FiniteSets, TLC

\* ---------------------------------------------------------------- bounds
MaxOutputs == 2
MaxStartHeight == 1

\* ------------------------------------------------------ program constants
InitialBlocks == 101
ConfirmBlocks == 1
send_amount == 20
input_amount == 50
output_amount == 20
UnitsPerBtc == 10000000

miner_input_amount == <<"int", 50>>
trader_output_amount == <<"int", 20>>

WalletNames == <<"Miner", "Trader">>

\* ------------------------------------------------------------------ node
\* The addresses the node hands out, in the order it hands them out.
NodeAddresses == <<"bcrt1q_a", "bcrt1q_b">>
NodeTxid == <<"txid", 1>>
Hash(h) == <<"blockhash", h>>
HeightOf(hash) == hash[2]

\* A JSON number of BTC with eight decimals is u * 10^-7 + d * 10^-8.
JsonValues ==
    { [isnum |-> TRUE, u |-> 299999858, d |-> 5],
      [isnum |-> TRUE, u |-> 100000000, d |-> 0],
      [isnum |-> FALSE, u |-> 0, d |-> 0] }

\* One entry of "vout".  kind says what scriptPubKey.addresses is: absent
\* (or no array), an empty array, an array whose first element is no
\* string, or an array whose first element is the string `address`.
Outputs ==
    { [kind |-> k, address |-> <<>>, value |-> [isnum |-> FALSE, u |-> 0, d |-> 0]] :
        k \in {"absent", "empty", "nonstring"} }
    \cup
    { [kind |-> "string", address |-> <<NodeAddresses[a]>>, value |-> v] :
        a \in DOMAIN NodeAddresses, v \in JsonValues }

Vouts == UNION { [1..n -> Outputs] : n \in 0..MaxOutputs }

TxResponses ==
    { [hasVout |-> FALSE, vout |-> <<>>] }
    \cup { [hasVout |-> TRUE, vout |-> v] : v \in Vouts }

VARIABLES
    pc, result,
    wallets, wallets0, tip, mempool, confirmed, keypool,
    calls, steps,
    addrDebugWrapped,
    wallet_name, create_err,
    mining_address_str, trader_address_str, txid, block_hashes,
    tx_details, block_details,
    miner_change_address, miner_change_amount, transaction_fees, block_height,
    fileCreated, file

nodeVars == <<wallets, tip, mempool, confirmed, keypool>>
cowVars == <<wallet_name, create_err>>
rpcLocals == <<mining_address_str, trader_address_str, txid, block_hashes,
               tx_details, block_details>>
parsed == <<miner_change_address, miner_change_amount, transaction_fees, block_height>>
fileVars == <<fileCreated, file>>
vars == <<pc, result, wallets, wallets0, tip, mempool, confirmed, keypool,
          calls, steps, addrDebugWrapped, wallet_name, create_err,
          mining_address_str, trader_address_str, txid, block_hashes,
          tx_details, block_details, miner_change_address, miner_change_amount,
          transaction_fees, block_height, fileCreated, file>>

\* ------------------------------------------------------------ node answers
\* A wallet call is decided by the wallet's state unless the node cannot be
\* reached; any other call may also be rejected by the node.
WalletOutcomes(accepted) ==
    IF accepted THEN {"ok", "transport"} ELSE {"rpc", "transport"}

NodeOutcomes(possible) ==
    IF possible THEN {"ok", "rpc", "transport"} ELSE {"rpc", "transport"}

ValidAddress(s) == Len(s) = 1

\* ---------------------------------------------------------- pure helpers
\* format!("{:?}", address).trim_matches('"'): the Debug text of an address
\* is the address itself or, for an address whose network is unchecked, the
\* address inside "Address<NetworkUnchecked>(...)", by the version of the
\* bitcoin crate the build links; there are no quotes to trim in either.
\* The node accepts only the first form as an address.
DebugTrim(a) ==
    IF addrDebugWrapped THEN <<"Address<NetworkUnchecked>(", a, ")">> ELSE <<a>>

\* output["value"].as_f64().unwrap_or(0.0)
AsF64OrZero(v) == IF v.isnum THEN [u |-> v.u, d |-> v.d] ELSE [u |-> 0, d |-> 0]

\* format!("{:.7}", amount): the eighth decimal is rounded away; a 5 there
\* goes either way, by the binary value nearest the decimal.
Format7(x) ==
    IF x.d < 5 THEN { <<"dec7", x.u>> }
    ELSE IF x.d > 5 THEN { <<"dec7", x.u + 1>> }
    ELSE { <<"dec7", x.u>>, <<"dec7", x.u + 1>> }

\* miner_change_amount.parse::<f64>().unwrap_or(0.0), in units of 10^-7
ParseF64OrZero(s) == IF s = <<>> THEN 0 ELSE s[2]

\* Mutant: the change is left out of the subtraction.
TransactionFees_IgnoresChange(change_text) ==
    <<"dec7", input_amount * UnitsPerBtc - output_amount * UnitsPerBtc>>

TransactionFees(change_text) ==
    <<"dec7", input_amount * UnitsPerBtc - output_amount * UnitsPerBtc
              - ParseF64OrZero(change_text)>>

\* Mutant: the field read is not in the response, so the default is taken.
AsU64OrZero_FieldMissing(v) == 0

\* block_details["height"].as_u64().unwrap_or(0)
AsU64OrZero(v) == IF v \in Nat THEN v ELSE 0

\* Mutant: the loop breaks on the first output with an address, the
\* trader's included.
RECURSIVE FindChange_AnyAddress(_, _, _)
FindChange_AnyAddress(vout, i, trader) ==
    IF i > Len(vout) THEN [r |-> "none", i |-> 0]
    ELSE CASE vout[i].kind = "empty" -> [r |-> "panic", i |-> i]
           [] vout[i].kind = "string" -> [r |-> "found", i |-> i]
           [] OTHER -> FindChange_AnyAddress(vout, i + 1, trader)

\* The loop over vout: the index of the output it breaks on, "none" when it
\* runs to the end, "panic" when addresses[0] indexes an empty array.
RECURSIVE FindChange(_, _, _)
FindChange(vout, i, trader) ==
    IF i > Len(vout) THEN [r |-> "none", i |-> 0]
    ELSE CASE vout[i].kind = "empty" -> [r |-> "panic", i |-> i]
           [] vout[i].kind = "string" /\ vout[i].address # trader -> [r |-> "found", i |-> i]
           [] OTHER -> FindChange(vout, i + 1, trader)

\* ------------------------------------------------------------------ Init
Init ==
    /\ pc = "get_blockchain_info"
    /\ result = <<"running">>
    /\ wallets0 \in [{"Miner", "Trader"} -> {"absent", "unloaded", "loaded"}]
    /\ wallets = wallets0
    /\ tip \in 0..MaxStartHeight
    /\ mempool = {}
    /\ confirmed = {}
    /\ keypool = 1
    /\ calls = <<>>
    /\ steps = <<>>
    /\ addrDebugWrapped \in BOOLEAN
    /\ wallet_name = WalletNames[1]
    /\ create_err = <<>>
    /\ mining_address_str = <<>>
    /\ trader_address_str = <<>>
    /\ txid = <<>>
    /\ block_hashes = <<>>
    /\ tx_details = [hasVout |-> FALSE, vout |-> <<>>]
    /\ block_details = [height |-> 0]
    /\ miner_change_address = <<>>
    /\ miner_change_amount = <<>>
    /\ transaction_fees = <<>>
    /\ block_height = 0
    /\ fileCreated = FALSE
    /\ file = <<>>

\* ------------------------------------------------------------ call helpers
Log(proc, arg, out) ==
    calls' = Append(calls, [proc |-> proc, arg |-> arg, out |-> out])

\* `?` on a failed call: main returns the error.
Abort(proc, out) ==
    /\ pc' = "done"
    /\ result' = <<"Err", proc, out>>

\* create_or_load_wallet returned Ok(()): main goes on to the next wallet,
\* and after the second one to step 2.
CowReturnOk ==
    /\ result' = result
    /\ IF wallet_name = WalletNames[1]
       THEN /\ wallet_name' = WalletNames[2]
            /\ pc' = "load_wallet"
            /\ steps' = steps
       ELSE /\ wallet_name' = wallet_name
            /\ pc' = "new_mining_address"
            /\ steps' = Append(steps, 1)

\* ------------------------------------------------------------------ steps
GetBlockchainInfo ==
    /\ pc = "get_blockchain_info"
    /\ \E out \in NodeOutcomes(TRUE) :
         /\ Log("getblockchaininfo", <<>>, out)
         /\ IF out = "ok"
            THEN pc' = "load_wallet" /\ result' = result
            ELSE Abort("getblockchaininfo", out)
    /\ UNCHANGED <<nodeVars, wallets0, steps, addrDebugWrapped, cowVars,
                   rpcLocals, parsed, fileVars>>

\* create_or_load_wallet: the first load attempt.
LoadWallet ==
    /\ pc = "load_wallet"
    /\ \E out \in WalletOutcomes(wallets[wallet_name] = "unloaded") :
         /\ Log("loadwallet", <<wallet_name>>, out)
         /\ IF out = "ok"
            THEN /\ wallets' = [wallets EXCEPT ![wallet_name] = "loaded"]
                 /\ CowReturnOk
            ELSE /\ pc' = "create_wallet"
                 /\ UNCHANGED <<wallets, wallet_name, steps, result>>
    /\ UNCHANGED <<tip, mempool, confirmed, keypool, wallets0, addrDebugWrapped,
                   create_err, rpcLocals, parsed, fileVars>>

\* create_or_load_wallet: the creation attempt after a failed load.
CreateWallet ==
    /\ pc = "create_wallet"
    /\ \E out \in WalletOutcomes(wallets[wallet_name] = "absent") :
         /\ Log("createwallet", <<wallet_name>>, out)
         /\ IF out = "ok"
            THEN /\ wallets' = [wallets EXCEPT ![wallet_name] = "loaded"]
                 /\ create_err' = create_err
                 /\ CowReturnOk
            ELSE /\ pc' = "load_wallet_again"
                 /\ create_err' = <<"Err", "createwallet", out>>
                 /\ UNCHANGED <<wallets, wallet_name, steps, result>>
    /\ UNCHANGED <<tip, mempool, confirmed, keypool, wallets0, addrDebugWrapped,
                   rpcLocals, parsed, fileVars>>

\* Mutant: a failed second load is tried again.
LoadWalletAgain_Retries ==
    /\ pc = "load_wallet_again"
    /\ \E out \in WalletOutcomes(wallets[wallet_name] = "unloaded") :
         /\ Log("loadwallet", <<wallet_name>>, out)
         /\ IF out = "ok"
            THEN /\ wallets' = [wallets EXCEPT ![wallet_name] = "loaded"]
                 /\ CowReturnOk
            ELSE /\ pc' = "load_wallet_again"
                 /\ UNCHANGED <<wallets, wallet_name, steps, result>>
    /\ UNCHANGED <<tip, mempool, confirmed, keypool, wallets0, addrDebugWrapped,
                   create_err, rpcLocals, parsed, fileVars>>

\* Mutant: the error of the second load is returned, not the creation's.
LoadWalletAgain_ReturnsLoadError ==
    /\ pc = "load_wallet_again"
    /\ \E out \in WalletOutcomes(wallets[wallet_name] = "unloaded") :
         /\ Log("loadwallet", <<wallet_name>>, out)
         /\ IF out = "ok"
            THEN /\ wallets' = [wallets EXCEPT ![wallet_name] = "loaded"]
                 /\ CowReturnOk
            ELSE /\ pc' = "done"
                 /\ result' = <<"Err", "loadwallet", out>>
                 /\ UNCHANGED <<wallets, wallet_name, steps>>
    /\ UNCHANGED <<tip, mempool, confirmed, keypool, wallets0, addrDebugWrapped,
                   create_err, rpcLocals, parsed, fileVars>>

\* create_or_load_wallet: the second load attempt after a failed creation.
LoadWalletAgain ==
    /\ pc = "load_wallet_again"
    /\ \E out \in WalletOutcomes(wallets[wallet_name] = "unloaded") :
         /\ Log("loadwallet", <<wallet_name>>, out)
         /\ IF out = "ok"
            THEN /\ wallets' = [wallets EXCEPT ![wallet_name] = "loaded"]
                 /\ CowReturnOk
            ELSE /\ pc' = "done"
                 /\ result' = create_err
                 /\ UNCHANGED <<wallets, wallet_name, steps>>
    /\ UNCHANGED <<tip, mempool, confirmed, keypool, wallets0, addrDebugWrapped,
                   create_err, rpcLocals, parsed, fileVars>>

\* Step 2: getnewaddress on the Miner wallet, and its text for later calls.
GetNewMiningAddress ==
    /\ pc = "new_mining_address"
    /\ \E out \in NodeOutcomes(wallets["Miner"] = "loaded") :
         /\ Log("getnewaddress", <<"Miner", "Mining Reward">>, out)
         /\ IF out = "ok"
            THEN /\ mining_address_str' = DebugTrim(NodeAddresses[keypool])
                 /\ keypool' = keypool + 1
                 /\ pc' = "mine_initial"
                 /\ steps' = Append(steps, 2)
                 /\ result' = result
            ELSE /\ Abort("getnewaddress", out)
                 /\ UNCHANGED <<mining_address_str, keypool, steps>>
    /\ UNCHANGED <<wallets, tip, mempool, confirmed, wallets0, addrDebugWrapped,
                   cowVars, trader_address_str, txid, block_hashes, tx_details,
                   block_details, parsed, fileVars>>

\* Step 3: generatetoaddress 101; the hashes returned are dropped.
MineInitialBlocks ==
    /\ pc = "mine_initial"
    /\ \E out \in NodeOutcomes(ValidAddress(mining_address_str)) :
         /\ Log("generatetoaddress", <<InitialBlocks, mining_address_str>>, out)
         /\ IF out = "ok"
            THEN /\ tip' = tip + InitialBlocks
                 /\ confirmed' = confirmed \cup { <<t, tip + 1>> : t \in mempool }
                 /\ mempool' = {}
                 /\ pc' = "get_balance"
                 /\ steps' = Append(steps, 3)
                 /\ result' = result
            ELSE /\ Abort("generatetoaddress", out)
                 /\ UNCHANGED <<tip, confirmed, mempool, steps>>
    /\ UNCHANGED <<wallets, keypool, wallets0, addrDebugWrapped, cowVars,
                   rpcLocals, parsed, fileVars>>

\* Mutant: a failed getbalance is ignored and the run goes on.
GetBalance_IgnoresFailure ==
    /\ pc = "get_balance"
    /\ \E out \in NodeOutcomes(wallets["Miner"] = "loaded") :
         /\ Log("getbalance", <<"Miner">>, out)
         /\ pc' = "new_trader_address"
         /\ result' = result
    /\ UNCHANGED <<nodeVars, wallets0, steps, addrDebugWrapped, cowVars,
                   rpcLocals, parsed, fileVars>>

\* getbalance on the Miner wallet, after the sleep; the balance is printed.
GetBalance ==
    /\ pc = "get_balance"
    /\ \E out \in NodeOutcomes(wallets["Miner"] = "loaded") :
         /\ Log("getbalance", <<"Miner">>, out)
         /\ IF out = "ok"
            THEN pc' = "new_trader_address" /\ result' = result
            ELSE Abort("getbalance", out)
    /\ UNCHANGED <<nodeVars, wallets0, steps, addrDebugWrapped, cowVars,
                   rpcLocals, parsed, fileVars>>

\* Step 4: getnewaddress on the Trader wallet.
GetNewTraderAddress ==
    /\ pc = "new_trader_address"
    /\ \E out \in NodeOutcomes(wallets["Trader"] = "loaded") :
         /\ Log("getnewaddress", <<"Trader", "Received">>, out)
         /\ IF out = "ok"
            THEN /\ trader_address_str' = DebugTrim(NodeAddresses[keypool])
                 /\ keypool' = keypool + 1
                 /\ pc' = "send"
                 /\ steps' = Append(steps, 4)
                 /\ result' = result
            ELSE /\ Abort("getnewaddress", out)
                 /\ UNCHANGED <<trader_address_str, keypool, steps>>
    /\ UNCHANGED <<wallets, tip, mempool, confirmed, wallets0, addrDebugWrapped,
                   cowVars, mining_address_str, txid, block_hashes, tx_details,
                   block_details, parsed, fileVars>>

\* Mutant: after the payment the run goes straight to the confirming block.
SendToAddress_SkipsMempoolQuery ==
    /\ pc = "send"
    /\ \E out \in NodeOutcomes(ValidAddress(trader_address_str)) :
         /\ Log("sendtoaddress", <<trader_address_str, send_amount>>, out)
         /\ IF out = "ok"
            THEN /\ txid' = NodeTxid
                 /\ mempool' = mempool \cup {NodeTxid}
                 /\ pc' = "mine_confirm"
                 /\ steps' = Append(steps, 5)
                 /\ result' = result
            ELSE /\ Abort("sendtoaddress", out)
                 /\ UNCHANGED <<txid, mempool, steps>>
    /\ UNCHANGED <<wallets, tip, confirmed, keypool, wallets0, addrDebugWrapped,
                   cowVars, mining_address_str, trader_address_str, block_hashes,
                   tx_details, block_details, parsed, fileVars>>

\* Step 5: sendtoaddress on the Miner wallet; the node puts the transaction
\* in its mempool.
SendToAddress ==
    /\ pc = "send"
    /\ \E out \in NodeOutcomes(ValidAddress(trader_address_str)) :
         /\ Log("sendtoaddress", <<trader_address_str, send_amount>>, out)
         /\ IF out = "ok"
            THEN /\ txid' = NodeTxid
                 /\ mempool' = mempool \cup {NodeTxid}
                 /\ pc' = "get_mempool_entry"
                 /\ steps' = Append(steps, 5)
                 /\ result' = result
            ELSE /\ Abort("sendtoaddress", out)
                 /\ UNCHANGED <<txid, mempool, steps>>
    /\ UNCHANGED <<wallets, tip, confirmed, keypool, wallets0, addrDebugWrapped,
                   cowVars, mining_address_str, trader_address_str, block_hashes,
                   tx_details, block_details, parsed, fileVars>>

\* Step 6: getmempoolentry; the node knows only unconfirmed transactions.
GetMempoolEntry ==
    /\ pc = "get_mempool_entry"
    /\ \E out \in NodeOutcomes(txid \in mempool) :
         /\ Log("getmempoolentry", txid, out)
         /\ IF out = "ok"
            THEN /\ pc' = "mine_confirm"
                 /\ steps' = Append(steps, 6)
                 /\ result' = result
            ELSE /\ Abort("getmempoolentry", out)
                 /\ steps' = steps
    /\ UNCHANGED <<nodeVars, wallets0, addrDebugWrapped, cowVars, rpcLocals,
                   parsed, fileVars>>

\* Step 7: generatetoaddress 1; the new block takes the mempool.
MineConfirmBlock ==
    /\ pc = "mine_confirm"
    /\ \E out \in NodeOutcomes(ValidAddress(mining_address_str)) :
         /\ Log("generatetoaddress", <<ConfirmBlocks, mining_address_str>>, out)
         /\ IF out = "ok"
            THEN /\ block_hashes' = [i \in 1..ConfirmBlocks |-> Hash(tip + i)]
                 /\ tip' = tip + ConfirmBlocks
                 /\ confirmed' = confirmed \cup { <<t, tip + 1>> : t \in mempool }
                 /\ mempool' = {}
                 /\ pc' = "get_transaction"
                 /\ steps' = Append(steps, 7)
                 /\ result' = result
            ELSE /\ Abort("generatetoaddress", out)
                 /\ UNCHANGED <<block_hashes, tip, confirmed, mempool, steps>>
    /\ UNCHANGED <<wallets, keypool, wallets0, addrDebugWrapped, cowVars,
                   mining_address_str, trader_address_str, txid, tx_details,
                   block_details, parsed, fileVars>>

\* Step 8, first call: getrawtransaction txid true.
GetTransactionDetails ==
    /\ pc = "get_transaction"
    /\ \E out \in NodeOutcomes(txid \in mempool \/ \E h \in 0..tip : <<txid, h>> \in confirmed) :
         /\ Log("getrawtransaction", txid, out)
         /\ IF out = "ok"
            THEN /\ \E d \in TxResponses : tx_details' = d
                 /\ pc' = "get_block"
                 /\ result' = result
            ELSE /\ Abort("getrawtransaction", out)
                 /\ tx_details' = tx_details
    /\ UNCHANGED <<nodeVars, wallets0, steps, addrDebugWrapped, cowVars,
                   mining_address_str, trader_address_str, txid, block_hashes,
                   block_details, parsed, fileVars>>

\* Step 8, second call: getblock on the first hash step 7 returned.
GetBlockDetails ==
    /\ pc = "get_block"
    /\ \E out \in NodeOutcomes(\E h \in 0..tip : Hash(h) = block_hashes[1]) :
         /\ Log("getblock", block_hashes[1], out)
         /\ IF out = "ok"
            THEN /\ block_details' = [height |-> HeightOf(block_hashes[1])]
                 /\ pc' = "extract"
                 /\ steps' = Append(steps, 8)
                 /\ result' = result
            ELSE /\ Abort("getblock", out)
                 /\ UNCHANGED <<block_details, steps>>
    /\ UNCHANGED <<nodeVars, wallets0, addrDebugWrapped, cowVars,
                   mining_address_str, trader_address_str, txid, block_hashes,
                   tx_details, parsed, fileVars>>

\* Step 8, locally: the change output, the fee and the block height.
ExtractDetails ==
    /\ pc = "extract"
    /\ LET c == FindChange(tx_details.vout, 1, trader_address_str) IN
         IF ~tx_details.hasVout \/ c.r = "panic"
         THEN /\ pc' = "done"
              /\ result' = <<"panic">>
              /\ UNCHANGED parsed
         ELSE /\ pc' = "create_file"
              /\ result' = result
              /\ block_height' = AsU64OrZero(block_details.height)
              /\ IF c.r = "found"
                 THEN \E text \in Format7(AsF64OrZero(tx_details.vout[c.i].value)) :
                        /\ miner_change_address' = tx_details.vout[c.i].address
                        /\ miner_change_amount' = text
                        /\ transaction_fees' = TransactionFees(text)
                 ELSE /\ miner_change_address' = <<>>
                      /\ miner_change_amount' = <<>>
                      /\ transaction_fees' = TransactionFees(<<>>)
    /\ UNCHANGED <<nodeVars, wallets0, calls, steps, addrDebugWrapped, cowVars,
                   rpcLocals, fileVars>>

\* Mutant: the change amount is written before the change address.
OutputLines_ChangeFieldsSwapped ==
    << txid, mining_address_str, miner_input_amount, trader_address_str,
       trader_output_amount, miner_change_amount, miner_change_address,
       transaction_fees, <<"int", block_height>>, block_hashes[1] >>

\* Step 9: the ten fields in the order they are written.
OutputLines ==
    << txid, mining_address_str, miner_input_amount, trader_address_str,
       trader_output_amount, miner_change_address, miner_change_amount,
       transaction_fees, <<"int", block_height>>, block_hashes[1] >>

\* File::create("../out.txt")?
CreateOutputFile ==
    /\ pc = "create_file"
    /\ \/ /\ fileCreated' = TRUE
          /\ file' = <<>>
          /\ pc' = "write"
          /\ result' = result
       \/ /\ pc' = "done"
          /\ result' = <<"Err", "io", "create">>
          /\ UNCHANGED fileVars
    /\ UNCHANGED <<nodeVars, wallets0, calls, steps, addrDebugWrapped, cowVars,
                   rpcLocals, parsed>>

\* The ten writeln! calls: all succeed, or the first k do and the next fails.
WriteOutputFile ==
    /\ pc = "write"
    /\ \E k \in 0..Len(OutputLines) :
         /\ file' = SubSeq(OutputLines, 1, k)
         /\ pc' = "done"
         /\ IF k = Len(OutputLines)
            THEN result' = <<"Ok">> /\ steps' = Append(steps, 9)
            ELSE result' = <<"Err", "io", "write">> /\ steps' = steps
    /\ UNCHANGED <<nodeVars, wallets0, calls, addrDebugWrapped, cowVars,
                   rpcLocals, parsed, fileCreated>>

Next ==
    \/ GetBlockchainInfo
    \/ LoadWallet
    \/ CreateWallet
    \/ LoadWalletAgain
    \/ GetNewMiningAddress
    \/ MineInitialBlocks
    \/ GetBalance
    \/ GetNewTraderAddress
    \/ SendToAddress
    \/ GetMempoolEntry
    \/ MineConfirmBlock
    \/ GetTransactionDetails
    \/ GetBlockDetails
    \/ ExtractDetails
    \/ CreateOutputFile
    \/ WriteOutputFile

Spec == Init /\ [][Next]_vars

\* ===================================================== reading the history
WalletProcs == {"loadwallet", "createwallet"}

\* The attempts create_or_load_wallet made for wallet w, in order.
WalletCalls(w) ==
    LET ForW(c) == c.proc \in WalletProcs /\ c.arg = <<w>>
    IN  SelectSeq(calls, ForW)

\* The calls outside create_or_load_wallet that the node answered.
AnsweredProcs ==
    LET Answered(c) == c.proc \notin WalletProcs /\ c.out = "ok"
        cs == SelectSeq(calls, Answered)
    IN  [i \in 1..Len(cs) |-> cs[i].proc]

ExpectedProcs ==
    << "getblockchaininfo", "getnewaddress", "generatetoaddress", "getbalance",
       "getnewaddress", "sendtoaddress", "getmempoolentry", "generatetoaddress",
       "getrawtransaction", "getblock" >>

IsPrefix(s, t) == Len(s) <= Len(t) /\ \A i \in 1..Len(s) : s[i] = t[i]

\* The value a line of the file states, in units of 10^-7 BTC.
DecimalValue(s) ==
    IF s = <<>> THEN 0
    ELSE IF s[1] = "int" THEN s[2] * UnitsPerBtc
    ELSE s[2]

FileComplete == fileCreated /\ Len(file) = 10

\* The loop over vout has run (or panicked).
AfterExtract ==
    \/ pc \in {"create_file", "write"}
    \/ pc = "done" /\ Len(steps) >= 8

Qualifies(o) == o.kind = "string" /\ o.address # trader_address_str

\* ------------------------------------------------------------------- C1
\* C1: a run that returns Ok has written exactly ten lines, in the order
\* txid, miner input address, miner input amount, trader output address,
\* trader output amount, change address, change amount, fee, block height,
\* block hash.
C1_TenLinesInOrder ==
    result = <<"Ok">> =>
        /\ fileCreated
        /\ Len(file) = 10
        /\ file[1] = txid /\ txid = NodeTxid
        /\ file[2] = mining_address_str /\ mining_address_str = <<NodeAddresses[1]>>
        /\ file[3] = <<"int", 50>>
        /\ file[4] = trader_address_str /\ trader_address_str = <<NodeAddresses[2]>>
        /\ file[5] = <<"int", 20>>
        /\ file[6] = miner_change_address
        /\ file[7] = miner_change_amount
        /\ file[7] = <<>> \/ file[7][1] = "dec7"
        /\ file[8] = transaction_fees /\ file[8][1] = "dec7"
        /\ file[9] = <<"int", block_height>>
        /\ file[10] = block_hashes[1] /\ file[10][1] = "blockhash"

C1_Witness ==
    /\ result = <<"Ok">>
    /\ Len(file) = 10
    /\ file[6] = <<>>
    /\ Len(tx_details.vout) = MaxOutputs

\* ------------------------------------------------------------------- C2
\* C2: whenever line 8 is in the file, the fee on it equals line 3 minus
\* line 5 minus line 7 (an empty line 7 counting as zero), to the seven
\* decimals written.
C2_FeeIsInputMinusOutputMinusChange ==
    (fileCreated /\ Len(file) >= 8) =>
        DecimalValue(file[8]) =
            DecimalValue(file[3]) - DecimalValue(file[5]) - DecimalValue(file[7])

\* The change 29.99998585 written as 29.9999859, the fee as 0.0000141.
C2_Witness ==
    /\ FileComplete
    /\ file[7] = <<"dec7", 299999859>>
    /\ file[8] = <<"dec7", 141>>

\* ------------------------------------------------------------------- C3
\* C3: whenever line 6 is in the file, the change address on it differs
\* from the trader address on line 4.
C3_ChangeAddressIsNotTrader ==
    (fileCreated /\ Len(file) >= 6) => file[6] # file[4]

\* An output paying the trader came first and was passed over.
C3_Witness ==
    /\ FileComplete
    /\ Len(tx_details.vout) = 2
    /\ tx_details.vout[1].kind = "string"
    /\ tx_details.vout[1].address = file[4]
    /\ file[6] = tx_details.vout[2].address
    /\ file[6] # <<>>

\* ------------------------------------------------------------------- C4
\* C4: create_or_load_wallet returns Ok for a wallet that already existed
\* (unloaded or loaded) when the run began, whenever the node was reachable
\* for each of its attempts.
C4_ExistingWalletLoads ==
    \A w \in {"Miner", "Trader"} :
        LET cs == WalletCalls(w)
            finished == Len(cs) > 0 /\ (cs[Len(cs)].out = "ok" \/ Len(cs) = 3)
        IN  ( /\ wallets0[w] # "absent"
              /\ finished
              /\ \A i \in 1..Len(cs) : cs[i].out # "transport" )
            => cs[Len(cs)].out = "ok"

\* ------------------------------------------------------------------- C5
\* C5 as stated: a failed remote call is the last call of the run, the run
\* has ended with that call's error, and no file was created.
C5_AnyFailureAborts ==
    \A i \in 1..Len(calls) :
        calls[i].out # "ok" =>
            /\ i = Len(calls)
            /\ pc = "done"
            /\ result = <<"Err", calls[i].proc, calls[i].out>>
            /\ ~fileCreated

\* The third attempt of create_or_load_wallet: a load right after the
\* failed creation of the same wallet.
IsSecondLoad(i) ==
    /\ i >= 3
    /\ calls[i].proc = "loadwallet"
    /\ calls[i - 1].proc = "createwallet"
    /\ calls[i - 1].arg = calls[i].arg

\* C5 amended: a failed call outside create_or_load_wallet is the last call
\* of the run, which has ended with that call's error and no file; inside
\* create_or_load_wallet a failed first load is followed by a creation
\* attempt and a failed creation by a second load of the same wallet, and
\* only a failed second load ends the run, with the creation's error and no
\* file.
C5_FailureAbortsOutsideWalletFallback ==
    \A i \in 1..Len(calls) :
        calls[i].out # "ok" =>
            IF calls[i].proc \notin WalletProcs
            THEN /\ i = Len(calls)
                 /\ pc = "done"
                 /\ result = <<"Err", calls[i].proc, calls[i].out>>
                 /\ ~fileCreated
            ELSE IF IsSecondLoad(i)
            THEN /\ i = Len(calls)
                 /\ pc = "done"
                 /\ result = <<"Err", "createwallet", calls[i - 1].out>>
                 /\ ~fileCreated
            ELSE /\ i = Len(calls) =>
                    /\ result = <<"running">>
                    /\ pc = (IF calls[i].proc = "loadwallet"
                             THEN "create_wallet" ELSE "load_wallet_again")
                 /\ i < Len(calls) =>
                    /\ calls[i + 1].proc = (IF calls[i].proc = "loadwallet"
                                            THEN "createwallet" ELSE "loadwallet")
                    /\ calls[i + 1].arg = calls[i].arg

\* A wallet load failed, the run went on, and a later failure ended it.
C5_Witness ==
    /\ pc = "done"
    /\ Len(calls) >= 2
    /\ calls[2].proc = "loadwallet" /\ calls[2].out # "ok"
    /\ calls[Len(calls)].proc = "sendtoaddress"
    /\ result = <<"Err", "sendtoaddress", "rpc">>

\* ------------------------------------------------------------------- C6
\* C6 as stated: no procedure is issued again with the same arguments after
\* an earlier issue of it failed.
C6_NoReissueAfterFailure ==
    \A i \in 1..Len(calls) :
        calls[i].out # "ok" =>
            \A j \in (i + 1)..Len(calls) :
                ~ ( /\ calls[i].proc = calls[j].proc
                    /\ calls[i].arg = calls[j].arg )

\* C6 amended: the only call issued again after it failed is the load of a
\* wallet, once, straight after the failed creation of that wallet: at most
\* two loads per wallet name, and no other procedure is repeated with the
\* same arguments after a failure.
C6_OnlyTheWalletLoadIsReissuedOnce ==
    /\ \A i \in 1..Len(calls) :
          calls[i].out # "ok" =>
              \A j \in (i + 1)..Len(calls) :
                  ( /\ calls[i].proc = calls[j].proc
                    /\ calls[i].arg = calls[j].arg )
                  => /\ calls[i].proc = "loadwallet"
                     /\ j = i + 2
                     /\ calls[i + 1].proc = "createwallet"
                     /\ calls[i + 1].arg = calls[i].arg
                     /\ calls[i + 1].out # "ok"
    /\ \A w \in {"Miner", "Trader"} :
          LET Loads(c) == c.proc = "loadwallet" /\ c.arg = <<w>>
          IN  Len(SelectSeq(calls, Loads)) <= 2

\* The Trader wallet was loaded twice, the second time successfully.
C6_Witness ==
    LET cs == WalletCalls("Trader")
    IN  /\ Len(cs) = 3
        /\ cs[1].proc = "loadwallet" /\ cs[3].proc = "loadwallet"
        /\ cs[3].out = "ok"

\* ------------------------------------------------------------------- C7
\* C7: in a complete file, line 10 is the hash of the block mined in step 7,
\* which was mined after the payment was sent and seen in the mempool, line
\* 9 is the height of that block in the node's chain, and that block holds
\* the transaction of line 1.
C7_BlockLinesIdentifyConfirmingBlock ==
    FileComplete =>
        /\ \E k \in 1..Len(calls) :
              /\ calls[k].proc = "generatetoaddress" /\ calls[k].out = "ok"
              /\ calls[k].arg[1] = 1
              /\ \A m \in (k + 1)..Len(calls) : calls[m].proc # "generatetoaddress"
              /\ \E j \in 1..(k - 1) :
                    /\ calls[j].proc = "getmempoolentry" /\ calls[j].out = "ok"
                    /\ \E i \in 1..(j - 1) :
                          calls[i].proc = "sendtoaddress" /\ calls[i].out = "ok"
        /\ file[10] = Hash(tip)
        /\ file[9] = <<"int", tip>>
        /\ <<file[1], tip>> \in confirmed

C7_Witness ==
    /\ FileComplete
    /\ result = <<"Ok">>
    /\ tip = MaxStartHeight + 102
    /\ file[9] = <<"int", MaxStartHeight + 102>>

\* ------------------------------------------------------------------- C8
\* The steps complete in the order 1..9, each at most once, and so do the
\* calls the node answered; the mempool is queried after the payment was
\* sent and before the confirming block is asked for, while the transaction
\* is unconfirmed.
StepsInFixedOrder ==
    /\ steps = [i \in 1..Len(steps) |-> i]
    /\ Len(steps) <= 9
    /\ LET answered == AnsweredProcs
       IN  IsPrefix(answered, ExpectedProcs)
    /\ \A j \in 1..Len(calls) :
          calls[j].proc = "getmempoolentry" =>
              /\ \E i \in 1..(j - 1) :
                    calls[i].proc = "sendtoaddress" /\ calls[i].out = "ok"
              /\ \A i \in 1..(j - 1) :
                    ~(calls[i].proc = "generatetoaddress" /\ calls[i].arg[1] = 1)
    /\ pc = "mine_confirm" =>
          /\ txid \in mempool
          /\ \A h \in 0..tip : <<txid, h>> \notin confirmed

\* C8 as stated: the fixed order, and the file exists only if every remote
\* call of the run succeeded.
C8_FileOnlyAfterEveryCallSucceeded ==
    /\ StepsInFixedOrder
    /\ fileCreated => \A i \in 1..Len(calls) : calls[i].out = "ok"

\* C8 amended: the fixed order, and the file exists only after steps 1 to 8
\* completed: every call outside create_or_load_wallet succeeded and each
\* of the two create_or_load_wallet calls ended with a successful attempt
\* (earlier attempts of it may have failed).
C8_FileOnlyAfterEveryStepSucceeded ==
    /\ StepsInFixedOrder
    /\ fileCreated =>
          /\ IsPrefix(<<1, 2, 3, 4, 5, 6, 7, 8>>, steps)
          /\ \A i \in 1..Len(calls) :
                calls[i].proc \notin WalletProcs => calls[i].out = "ok"
          /\ Len(AnsweredProcs) = Len(ExpectedProcs)
          /\ \A w \in {"Miner", "Trader"} :
                LET cs == WalletCalls(w)
                IN  Len(cs) > 0 /\ cs[Len(cs)].out = "ok"

\* A complete run on a node that had neither wallet: both loads failed.
C8_Witness ==
    /\ result = <<"Ok">>
    /\ steps = <<1, 2, 3, 4, 5, 6, 7, 8, 9>>
    /\ wallets0 = [w \in {"Miner", "Trader"} |-> "absent"]
    /\ calls[2].out = "rpc"

\* ------------------------------------------------------------------- C9
\* C9: create_or_load_wallet makes at most three attempts (load, create,
\* load), each only after the one before it failed; a successful attempt is
\* its last and the run goes on; when all three fail the run ends with the
\* error of the creation attempt.
C9_CreationErrorIsReturned ==
    /\ \A w \in {"Miner", "Trader"} :
          LET cs == WalletCalls(w) IN
          /\ Len(cs) <= 3
          /\ \A k \in 1..Len(cs) :
                /\ cs[k].proc = (IF k = 2 THEN "createwallet" ELSE "loadwallet")
                /\ k > 1 => cs[k - 1].out # "ok"
                /\ cs[k].out = "ok" => k = Len(cs)
          /\ (Len(cs) = 3 /\ cs[3].out # "ok") =>
                /\ pc = "done"
                /\ result = <<"Err", "createwallet", cs[2].out>>
    /\ (result[1] = "Err" /\ result[2] \in WalletProcs) =>
          \E w \in {"Miner", "Trader"} :
              /\ Len(WalletCalls(w)) = 3
              /\ WalletCalls(w)[3].out # "ok"
              /\ result = <<"Err", "createwallet", WalletCalls(w)[2].out>>

\* All three attempts failed, the creation for another reason than the loads.
C9_Witness ==
    LET cs == WalletCalls("Miner")
    IN  /\ Len(cs) = 3
        /\ cs[1].out = "transport" /\ cs[2].out = "rpc" /\ cs[3].out = "transport"
        /\ result = <<"Err", "createwallet", "rpc">>

\* ------------------------------------------------------------------ C10
\* C10: once the loop over the outputs has run, the change recorded is that
\* of the first output carrying an address list whose first address differs
\* from the trader address; with no such output the run has not failed in
\* the loop and records an empty change address, an empty change amount and
\* the fee 30.0000000.
C10_FirstQualifyingOrEmpty ==
    (AfterExtract /\ tx_details.hasVout) =>
        LET vout == tx_details.vout
            Q == { i \in 1..Len(vout) : Qualifies(vout[i]) }
        IN  IF Q # {}
            THEN LET first == CHOOSE i \in Q : \A j \in Q : i <= j
                 IN  /\ miner_change_address = vout[first].address
                     /\ miner_change_amount \in Format7(AsF64OrZero(vout[first].value))
            ELSE /\ result # <<"panic">>
                 /\ miner_change_address = <<>>
                 /\ miner_change_amount = <<>>
                 /\ transaction_fees = <<"dec7", 300000000>>

====
